---- MODULE Spec2Model ----
(***************************************************************************)
(* Model of the real-time synchronisation core of coti-crypto:             *)
(* class WebSocket of src/src/webSocket.ts together with the parts of      *)
(* BaseWallet / IndexedWallet (src/src/wallet.ts) it calls.                *)
(*                                                                         *)
(* An address is represented by its derivation index: the address hex of   *)
(* index i is written i (key derivation is injective and is not modelled). *)
(* Every await of the source is a point where another callback may run, so *)
(* each asynchronous function is split into one action per await.          *)
(***************************************************************************)
EXTENDS Integers, Sequences, FiniteSets, Bags, TLC

\* ---- program constants ----
Lookahead == 10
RetryLimit == 6

\* ---- bounds of the model ----
MaxKnown == 1
MaxPush == 1
MaxClients == 10
MaxFail == 1
MaxSessions == 2
MaxMixedPush == 1
MaxRacePush == 2
MaxResumePush == 2

MaxBoundedWindow == 2
MaxMsg == 2
MaxAmount == 1
MaxHash == 1
MaxTime == 1

\* values getMaxAddress() may return; 0 stands for "not defined" (falsy)
MaxAddressChoices == 0..MaxBoundedWindow


VARIABLES
    indexed,                    \* this.wallet instanceof IndexedWallet
    maxAddress,                 \* wallet.getMaxAddress()
    addressMap,                 \* wallet.addressMap (set of address hexes)
    addresses,                  \* addressesInHex captured by connect()
    client,                     \* this.client: id of the current transport, 0 before connect()
    transport,                  \* every transport made by setClient(), by id
    reconnectCounter,           \* this.reconnectCounter
    propagationSubscriptions,   \* Map keyed by address object, in insertion order
    balanceSubscriptions,       \* Map keyed by address hex
    transactionsSubscriptions,  \* Map keyed by address hex
    passes,                     \* set of the onConnected calls suspended at generateAddressByIndex
    advances,                   \* bag of the checkBalanceAndSubscribeNewAddress calls suspended at an await
    resolved,                   \* the promise returned by connect() is resolved
    successCallbacks,           \* number of calls of successCallback
    failedCallbacks,            \* number of calls of reconnectFailedCallback
    generated,                  \* bag of the hexes emitted as 'generateAddress'
    snapshots,                  \* bag of the hexes passed to walletUtils.checkBalances
    caught,                     \* number of exceptions raised inside callbacks
    resolvedAt,                 \* number of pushes handled when connect() resolved, -1 before
    pushBudget,                 \* bound: propagation pushes delivered in this run
    clientBudget,               \* bound: transports made in this run
    failBudget,                 \* bound: awaits that reject in this run
    teardowns,                  \* number of addressesUnsubscribe() sweeps
    failedAttempts,             \* consecutive failed reconnect() attempts
    rejection,                  \* how the promise returned by connect() was rejected, "none" if not
    handshaken,                 \* some transport has completed its handshake
    balance,                    \* wallet.addressMap: hex -> << balance, preBalance >> of the Address
    balanceChanges,             \* number of 'balanceChange' events emitted
    transactionMap,             \* wallet.transactionMap: hash -> ReducedTransaction
    receivedTransactions,       \* number of 'receivedTransaction' events emitted
    delivered,                  \* number of balance pushes, transaction pushes and
                                \* propagation pushes with a foreign hash delivered
    lastDelivery,               \* the last of them, with the error its handler logged
    msgBudget,                  \* bound: such pushes delivered in this run
    msgKind,                    \* bound: the kind of such pushes delivered in this run
    timerBudget                 \* bound: the run lasts past the connect deadline

vars == << indexed, maxAddress, addressMap, addresses, client, transport,
           reconnectCounter, propagationSubscriptions, balanceSubscriptions,
           transactionsSubscriptions, passes, advances, resolved,
           successCallbacks, failedCallbacks, generated, snapshots, caught,
           resolvedAt, pushBudget, clientBudget, failBudget, teardowns, failedAttempts,
           rejection, handshaken, balance, balanceChanges, transactionMap,
           receivedTransactions, delivered, lastDelivery, msgBudget, msgKind,
           timerBudget >>

\* ---- helpers ----

\* client.subscribe(...) on the current client: the handle it returns.
\* sent: the client had completed its handshake when subscribe was called.
Subscribe(c, tr) ==
    [tr |-> c, sent |-> (c > 0 /\ tr[c].st = "connected"), unsub |-> FALSE]

\* a handle on which the server can still deliver a push
Open(h) == h.sent /\ ~h.unsub /\ transport[h.tr].st = "connected"

\* mutant of SeedCondition: the window test is off by one
SeedCondition_OffByOne(i, n, maxA) ==
    i <= n + Lookahead /\ (maxA = 0 \/ i < maxA)

\* the loop condition of the seeding loop in onConnected
SeedCondition(i, n, maxA) ==
    i < n + Lookahead /\ (maxA = 0 \/ i < maxA)

\* the retry test of reconnect's error callback
RetryAllowed(connected, counter) ==
    ~connected /\ counter <= RetryLimit

\* mutant of NextPropagationAddressIndex: shift() instead of pop()
NextPropagationAddressIndex_First(keys) ==
    keys[1].index + 1

\* Array.from(propagationSubscriptions.keys()).pop().getIndex() + 1
\* (only evaluated on a non-empty map; on an empty one pop() is undefined)
NextPropagationAddressIndex(keys) ==
    keys[Len(keys)].index + 1

\* addressPropagationSubscriber(address): subscribes and sets the map entry;
\* the alreadySubscribed test only logs
AddressPropagationSubscriber(props, idx, h) ==
    Append(props, [index |-> idx, tr |-> h.tr, sent |-> h.sent, unsub |-> h.unsub])

\* the hexes that are keys of a hex-keyed subscription map
Keys(m) == { e.hex : e \in m }

\* mutant of ConnectToAddressMap: the test for an existing entry is inverted
ConnectToAddressMap_Inverted(m, hex, h) ==
    IF hex \in Keys(m)
    THEN m \cup {[hex |-> hex, tr |-> h.tr, sent |-> h.sent, unsub |-> h.unsub]}
    ELSE m

\* one of the two halves of connectToAddress(addressHex): subscribe and set
\* the entry unless the map already has a (truthy) entry for the hex
ConnectToAddressMap(m, hex, h) ==
    IF hex \in Keys(m)
    THEN m
    ELSE m \cup {[hex |-> hex, tr |-> h.tr, sent |-> h.sent, unsub |-> h.unsub]}

\* addresses.forEach(address => this.connectToAddress(address)), one map
ConnectToAddresses(m, hexes, h) ==
    m \cup UNION { ConnectToAddressMap(m, x, h) : x \in hexes }

\* forEach(s => s.unsubscribe()) over a hex-keyed map; the map keeps its entries.
\* unsub records that unsubscribe() was invoked on the handle: each call runs
\* in an async arrow of its own (lines 62-64), so one that throws rejects only
\* that arrow's promise and the sweep goes on
UnsubscribeMap(m) ==
    { [e EXCEPT !.unsub = TRUE] : e \in m }

\* the same over the propagation map
UnsubscribeSeq(s) ==
    [k \in 1..Len(s) |-> [s[k] EXCEPT !.unsub = TRUE]]

\* the propagation map without its k-th entry (Map.delete of that key)
RemoveAt(s, k) ==
    SubSeq(s, 1, k - 1) \o SubSeq(s, k + 1, Len(s))

\* ---- values ----
\* new BigDecimal(n): a decimal object, which has getValue()
BigDecimal(n) == [kind |-> "decimal", v |-> n]

\* a JSON number of a parsed body, and JSON null
Number(n) == [kind |-> "number", v |-> n]
Null == [kind |-> "null", v |-> 0]

\* x.getValue() is a function: only a decimal object has the method
HasGetValue(x) == x.kind = "decimal"

\* the amounts a snapshot or a push may carry in this run
Amounts == IF msgBudget = 0 THEN {0} ELSE 0..MaxAmount

\* mutant of SetAddressWithBalance: the address is not put into the map
SetAddressWithBalance_NoMapSet(map, hex, b, pb) ==
    IF HasGetValue(b) /\ HasGetValue(pb)
    THEN [map |-> map, emitted |-> 1, error |-> "none"]
    ELSE [map |-> map, emitted |-> 0, error |-> "TypeError"]

\* wallet.setAddressWithBalance(address, balance, preBalance) on the address
\* of the given hex (wallet.ts 94-103): the log line evaluates
\* balance.getValue() and preBalance.getValue() before anything is stored, so
\* an argument without that method makes it throw a TypeError; otherwise the
\* address, with its two balances, is put into the address map under its hex
\* (setAddressToMap, line 101)
SetAddressWithBalance(map, hex, b, pb) ==
    IF HasGetValue(b) /\ HasGetValue(pb)
    THEN [map |-> { e \in map : e.hex # hex }
                    \cup { [hex |-> hex, balance |-> b, preBalance |-> pb] },
          emitted |-> 1, error |-> "none"]
    ELSE [map |-> map, emitted |-> 0, error |-> "TypeError"]

\* the values the balance and preBalance fields of a pushed body may hold
WireAmounts == { Null } \cup { Number(n) : n \in Amounts }

\* balance === null ? 0 : balance (line 129)
NullToZero(x) == IF x.kind = "null" THEN Number(0) ELSE x

\* mutant of AddressFound: the lookup result is not tested
AddressFound_Any(map, hash) == TRUE

\* wallet.getAddressMap().get(hash) !== undefined (lines 122-123)
AddressFound(map, hash) == hash \in { e.hex : e \in map }

\* the body of the balance handler (lines 119-133) on the parsed data: what
\* it leaves in the wallet, the events emitted and the error caught
BalanceHandler(map, data) ==
    IF data.message # "Balance Updated!"
    THEN [map |-> map, emitted |-> 0, error |-> "none"]
    ELSE IF ~AddressFound(map, data.addressHash)
    THEN [map |-> map, emitted |-> 0, error |-> "AddressNotFound"]
    ELSE SetAddressWithBalance(map, data.addressHash, NullToZero(data.balance),
                               NullToZero(data.preBalance))

\* new TransactionData(transactionData) and setStatus() (lines 144-145): the
\* wire record with its timestamp brought to the wallet's time representation
TransactionData(wire) ==
    [hash |-> wire.hash,
     transactionConsensusUpdateTime |-> wire.transactionConsensusUpdateTime * 1000,
     body |-> wire.body]

\* new ReducedTransaction(transaction): the record the wallet stores
ReducedTransaction(tx) ==
    [hash |-> tx.hash,
     transactionConsensusUpdateTime |-> tx.transactionConsensusUpdateTime,
     body |-> tx.body]

\* mutant of SetTransaction: a stored record of the hash is never replaced
SetTransaction_KeepsFirst(map, tx) ==
    IF \E r \in map : r.hash = tx.hash
    THEN [map |-> map, emitted |-> 0]
    ELSE [map |-> map \cup { ReducedTransaction(tx) }, emitted |-> 1]

\* wallet.setTransaction(transaction) (wallet.ts 135-151): what it leaves in
\* the transaction map and the events emitted
SetTransaction(map, tx) ==
    IF \E r \in map : /\ r.hash = tx.hash
                      /\ r.transactionConsensusUpdateTime = tx.transactionConsensusUpdateTime
    THEN [map |-> map, emitted |-> 0]
    ELSE [map |-> { r \in map : r.hash # tx.hash } \cup { ReducedTransaction(tx) },
          emitted |-> 1]

\* setClient(): a fresh transport becomes this.client
NewTransport(tr, how) ==
    Append(tr, [st |-> "connecting", via |-> how, connected |-> FALSE])

\* the bounded runs explored. With the full lookahead window (no maximum
\* address count): one session, with MaxPush pushes and MaxFail rejected
\* awaits. With a window cut short by the maximum address count, or without
\* discovery: one session with pushes and rejected awaits, a few sessions
\* with pushes, and the whole retry chain without pushes.
\* timer: the run lasts long enough for the connect deadline to pass.
\* msgs, kind: no balance push, transaction push or propagation push with a
\* foreign hash arrives in these runs.
Budgets(ix, maxA) ==
    IF ix /\ maxA = 0
    THEN { [push |-> MaxPush, clients |-> 1, fail |-> MaxFail, msgs |-> 0,
            kind |-> "none", timer |-> FALSE] }
    ELSE { [push |-> MaxMixedPush, clients |-> 1, fail |-> MaxFail, msgs |-> 0,
            kind |-> "none", timer |-> TRUE],
           [push |-> MaxMixedPush, clients |-> MaxSessions, fail |-> 0, msgs |-> 0,
            kind |-> "none", timer |-> FALSE],
           [push |-> 0, clients |-> MaxClients, fail |-> 0, msgs |-> 0,
            kind |-> "none", timer |-> TRUE] }

\* the state after new WebSocket(wallet), with the wallet loaded, for a wallet
\* and a bounded run given
InitWith(ix, maxA, known, b) ==
    /\ indexed = ix
    /\ maxAddress = maxA
    /\ addressMap = known
    /\ pushBudget = b.push /\ clientBudget = b.clients /\ failBudget = b.fail
    /\ msgBudget = b.msgs /\ msgKind = b.kind /\ timerBudget = b.timer
    /\ balance = { [hex |-> x, balance |-> BigDecimal(0), preBalance |-> BigDecimal(0)] :
                      x \in known }
    /\ balanceChanges = 0
    /\ transactionMap = {}
    /\ receivedTransactions = 0
    /\ delivered = 0
    /\ lastDelivery = [kind |-> "none"]
    /\ rejection = "none"
    /\ handshaken = FALSE
    /\ addresses = {}
    /\ client = 0
    /\ transport = << >>
    /\ reconnectCounter = 0
    /\ propagationSubscriptions = << >>
    /\ balanceSubscriptions = {}
    /\ transactionsSubscriptions = {}
    /\ passes = {}
    /\ advances = EmptyBag
    /\ resolved = FALSE
    /\ successCallbacks = 0
    /\ failedCallbacks = 0
    /\ generated = EmptyBag
    /\ snapshots = EmptyBag
    /\ caught = 0
    /\ resolvedAt = -1
    /\ teardowns = 0
    /\ failedAttempts = 0

\* ---- initial state: after new WebSocket(wallet), wallet loaded ----
Init ==
    \E ix \in BOOLEAN, maxA \in MaxAddressChoices, known \in SUBSET (0..(MaxKnown - 1)) :
        \E b \in Budgets(ix, maxA) : InitWith(ix, maxA, known, b)

\* ---- connect() ----
\* lines 26-35: capture the wallet's hexes, make the client, start the handshake
Connect ==
    /\ client = 0
    /\ addresses' = addressMap
    /\ transport' = NewTransport(transport, "connect")
    /\ client' = Len(transport) + 1
    /\ UNCHANGED << msgBudget, msgKind, timerBudget, rejection, handshaken, balance, balanceChanges,
                    transactionMap, receivedTransactions, delivered, lastDelivery,
                    indexed, maxAddress, pushBudget, clientBudget, failBudget, addressMap, reconnectCounter,
                    propagationSubscriptions, balanceSubscriptions,
                    transactionsSubscriptions, passes, advances, resolved,
                    successCallbacks, failedCallbacks, generated, snapshots,
                    caught, resolvedAt, teardowns, failedAttempts >>

\* the tail of onConnected (lines 105-113) and, for connect()'s success
\* callback, resolve() (line 40)
\* (resolve() of a promise that was rejected has no effect)
PassCompletes(t) ==
    /\ successCallbacks' = successCallbacks + 1
    /\ resolved' = (resolved \/ (transport[t].via = "connect" /\ rejection = "none"))
    /\ resolvedAt' = IF ~resolved /\ transport[t].via = "connect" /\ rejection = "none"
                     THEN BagCardinality(generated) ELSE resolvedAt

\* the handshake of transport t completes: the success callback of connect()
\* (lines 37-41) or of reconnect() (lines 73-77) runs onConnected up to its
\* first await
HandshakeSuccess(t) ==
    /\ t \in 1..Len(transport)
    /\ transport[t].st = "connecting"
    /\ LET tr == [transport EXCEPT ![t].st = "connected",
                                   ![t].connected = (transport[t].via = "reconnect")]
           h == Subscribe(client, tr)
           n == Cardinality(addresses)
       IN /\ transport' = tr
          /\ handshaken' = TRUE
          /\ reconnectCounter' = 0
          /\ failedAttempts' = 0
          /\ balanceSubscriptions' = ConnectToAddresses(balanceSubscriptions, addresses, h)
          /\ transactionsSubscriptions' =
                 ConnectToAddresses(transactionsSubscriptions, addresses, h)
          /\ IF indexed /\ SeedCondition(n, n, maxAddress)
             THEN /\ passes' = passes \cup {[tr |-> t, i |-> n]}
                  /\ UNCHANGED << resolved, successCallbacks, resolvedAt >>
             ELSE /\ passes' = passes
                  /\ PassCompletes(t)
    /\ UNCHANGED << msgBudget, msgKind, timerBudget, rejection, balance, balanceChanges,
                    transactionMap, receivedTransactions, delivered, lastDelivery,
                    indexed, maxAddress, pushBudget, clientBudget, failBudget, addressMap, addresses, client,
                    propagationSubscriptions, advances, failedCallbacks,
                    generated, snapshots, caught, teardowns >>

\* generateAddressByIndex(i) of a suspended onConnected resolves: lines 102-104
\* and the next test of the loop
PassDerived(p) ==
    /\ p \in passes
    /\ LET n == Cardinality(addresses)
           h == Subscribe(client, transport)
       IN /\ propagationSubscriptions' =
                 AddressPropagationSubscriber(propagationSubscriptions, p.i, h)
          /\ IF SeedCondition(p.i + 1, n, maxAddress)
             THEN /\ passes' = (passes \ {p}) \cup {[p EXCEPT !.i = p.i + 1]}
                  /\ UNCHANGED << resolved, successCallbacks, resolvedAt >>
             ELSE /\ passes' = passes \ {p}
                  /\ PassCompletes(p.tr)
    /\ UNCHANGED << msgBudget, msgKind, timerBudget, rejection, handshaken, balance, balanceChanges,
                    transactionMap, receivedTransactions, delivered, lastDelivery,
                    indexed, maxAddress, pushBudget, clientBudget, failBudget, addressMap, addresses, client, transport,
                    reconnectCounter, balanceSubscriptions,
                    transactionsSubscriptions, advances, failedCallbacks,
                    generated, snapshots, caught, teardowns, failedAttempts >>

\* generateAddressByIndex(i) of a suspended onConnected rejects: onConnected
\* rejects, neither the callback nor resolve() is reached
PassDeriveFails(p) ==
    /\ p \in passes
    /\ caught < failBudget
    /\ passes' = passes \ {p}
    /\ caught' = caught + 1
    /\ UNCHANGED << msgBudget, msgKind, timerBudget, rejection, handshaken, balance, balanceChanges,
                    transactionMap, receivedTransactions, delivered, lastDelivery,
                    indexed, maxAddress, pushBudget, clientBudget, failBudget, addressMap, addresses, client, transport,
                    reconnectCounter, propagationSubscriptions,
                    balanceSubscriptions, transactionsSubscriptions, advances,
                    resolved, successCallbacks, failedCallbacks, generated,
                    snapshots, resolvedAt, teardowns, failedAttempts >>

\* reconnect() (lines 67-71): a fresh client starts its handshake
Reconnect(t) ==
    /\ transport' = [NewTransport(transport, "reconnect") EXCEPT ![t].st = "failed"]
    /\ client' = Len(transport) + 1

\* the transport of the client made by connect() fails: its error callback
\* (lines 42-46) sweeps the three maps, then reconnects
ConnectError(t) ==
    /\ t \in 1..Len(transport)
    /\ transport[t].via = "connect"
    /\ transport[t].st \in {"connecting", "connected"}
    /\ Len(transport) < clientBudget
    /\ propagationSubscriptions' = UnsubscribeSeq(propagationSubscriptions)
    /\ balanceSubscriptions' = UnsubscribeMap(balanceSubscriptions)
    /\ transactionsSubscriptions' = UnsubscribeMap(transactionsSubscriptions)
    /\ teardowns' = teardowns + 1
    /\ Reconnect(t)
    /\ UNCHANGED << msgBudget, msgKind, timerBudget, rejection, handshaken, balance, balanceChanges,
                    transactionMap, receivedTransactions, delivered, lastDelivery,
                    indexed, maxAddress, pushBudget, clientBudget, failBudget, addressMap, addresses, reconnectCounter,
                    passes, advances, resolved, successCallbacks,
                    failedCallbacks, generated, snapshots, caught, resolvedAt,
                    failedAttempts >>

\* the transport of a client made by reconnect() fails: its error callback
\* (lines 78-87)
ReconnectError(t) ==
    /\ t \in 1..Len(transport)
    /\ transport[t].via = "reconnect"
    /\ transport[t].st \in {"connecting", "connected"}
    /\ IF RetryAllowed(transport[t].connected, reconnectCounter)
       THEN /\ Len(transport) < clientBudget
            /\ reconnectCounter' = reconnectCounter + 1
            /\ failedAttempts' = failedAttempts + 1
            /\ Reconnect(t)
            /\ UNCHANGED failedCallbacks
       ELSE /\ failedCallbacks' = failedCallbacks + 1
            /\ failedAttempts' = IF transport[t].connected
                                 THEN failedAttempts ELSE failedAttempts + 1
            /\ transport' = [transport EXCEPT ![t].st = "failed"]
            /\ UNCHANGED << reconnectCounter, client >>
    /\ UNCHANGED << msgBudget, msgKind, timerBudget, rejection, handshaken, balance, balanceChanges,
                    transactionMap, receivedTransactions, delivered, lastDelivery,
                    indexed, maxAddress, pushBudget, clientBudget, failBudget, addressMap, addresses,
                    propagationSubscriptions, balanceSubscriptions,
                    transactionsSubscriptions, passes, advances, resolved,
                    successCallbacks, generated, snapshots, caught, resolvedAt,
                    teardowns >>

\* the timer of connect() (lines 31-34) fires: reject() settles the promise
\* unless resolve() has settled it already, in which case nothing changes
ConnectTimeout ==
    /\ timerBudget
    /\ client > 0
    /\ ~resolved
    /\ rejection = "none"
    /\ rejection' = IF handshaken THEN "afterHandshake" ELSE "noHandshake"
    /\ UNCHANGED << msgBudget, msgKind, timerBudget, handshaken, balance, balanceChanges,
                    transactionMap, receivedTransactions, delivered, lastDelivery,
                    indexed, maxAddress, pushBudget, clientBudget, failBudget,
                    addressMap, addresses, client, transport, reconnectCounter,
                    propagationSubscriptions, balanceSubscriptions,
                    transactionsSubscriptions, passes, advances, resolved,
                    successCallbacks, failedCallbacks, generated, snapshots,
                    caught, resolvedAt, teardowns, failedAttempts >>

\* ---- address discovery ----
\* mutant of PayloadMatches: the hash of the payload is not compared
PayloadMatches_Any(addressHash, addressHex) == TRUE

\* the test of line 168, which throws when it fails
PayloadMatches(addressHash, addressHex) == addressHash = addressHex

\* a propagation push with the given addressHash arrives on the k-th entry
\* of the propagation map: lines 164-179 and, when the hash is the subscribed
\* one, checkBalanceAndSubscribeNewAddress up to its first await (lines
\* 184-187). The pushes that carry the subscribed hash are bounded by
\* pushBudget, the others by msgBudget.
PropagationPush(k, addressHash) ==
    /\ k \in 1..Len(propagationSubscriptions)
    /\ Open(propagationSubscriptions[k])
    /\ IF addressHash = propagationSubscriptions[k].index
       THEN /\ BagCardinality(generated) < pushBudget
            /\ UNCHANGED << delivered, lastDelivery >>
       ELSE /\ msgKind = "propagation"
            /\ delivered < msgBudget
            /\ delivered' = delivered + 1
            /\ lastDelivery' =
                  [kind |-> "propagation", topic |-> propagationSubscriptions[k].index,
                   data |-> [addressHash |-> addressHash],
                   error |-> IF PayloadMatches(addressHash, propagationSubscriptions[k].index)
                             THEN "none" ELSE "PropagationMismatch"]
    /\ LET address == propagationSubscriptions[k].index
           keys == RemoveAt(propagationSubscriptions, k)
       IN IF ~PayloadMatches(addressHash, address)
          THEN UNCHANGED << propagationSubscriptions, generated, advances, caught >>
          ELSE
          /\ propagationSubscriptions' = keys
          /\ generated' = generated (+) SetToBag({address})
          /\ IF ~indexed
             THEN UNCHANGED << advances, caught >>
             ELSE IF keys = << >>
             THEN /\ caught' = caught + 1       \* pop() is undefined: TypeError
                  /\ UNCHANGED advances
             ELSE /\ advances' = advances (+) SetToBag(
                         {[address |-> address,
                           next |-> NextPropagationAddressIndex(keys),
                           pc |-> "derive"]})
                  /\ UNCHANGED caught
    /\ UNCHANGED << msgBudget, msgKind, timerBudget, rejection, handshaken, balance, balanceChanges,
                    transactionMap, receivedTransactions,
                    indexed, maxAddress, pushBudget, clientBudget, failBudget, addressMap, addresses, client, transport,
                    reconnectCounter, balanceSubscriptions,
                    transactionsSubscriptions, passes, resolved,
                    successCallbacks, failedCallbacks, snapshots, resolvedAt,
                    teardowns, failedAttempts >>

\* generateAddressByIndex(next) of a suspended advance resolves: lines 189-193,
\* up to the await of walletUtils.checkBalances
AdvanceDerived(a) ==
    /\ BagIn(a, advances)
    /\ a.pc = "derive"
    /\ propagationSubscriptions' =
          AddressPropagationSubscriber(propagationSubscriptions, a.next,
                                       Subscribe(client, transport))
    /\ snapshots' = snapshots (+) SetToBag({a.address})
    /\ advances' = (advances (-) SetToBag({a})) (+) SetToBag({[a EXCEPT !.pc = "snapshot"]})
    /\ UNCHANGED << msgBudget, msgKind, timerBudget, rejection, handshaken, balance, balanceChanges,
                    transactionMap, receivedTransactions, delivered, lastDelivery,
                    indexed, maxAddress, pushBudget, clientBudget, failBudget, addressMap, addresses, client, transport,
                    reconnectCounter, balanceSubscriptions,
                    transactionsSubscriptions, passes, resolved,
                    successCallbacks, failedCallbacks, generated, caught,
                    resolvedAt, teardowns, failedAttempts >>

\* walletUtils.checkBalances of a suspended advance resolves: lines 194-199
AdvanceSnapshot(a) ==
    /\ BagIn(a, advances)
    /\ a.pc = "snapshot"
    /\ \E addressBalance, addressPreBalance \in Amounts :
          LET r == SetAddressWithBalance(balance, a.address, BigDecimal(addressBalance),
                                         BigDecimal(addressPreBalance))
          IN /\ balance' = r.map
             /\ addressMap' = Keys(r.map)
             /\ balanceChanges' = balanceChanges + r.emitted
    /\ LET h == Subscribe(client, transport)
       IN /\ balanceSubscriptions' = ConnectToAddressMap(balanceSubscriptions, a.address, h)
          /\ transactionsSubscriptions' =
                 ConnectToAddressMap(transactionsSubscriptions, a.address, h)
    /\ advances' = advances (-) SetToBag({a})
    /\ UNCHANGED << msgBudget, msgKind, timerBudget, rejection, handshaken,
                    transactionMap, receivedTransactions, delivered, lastDelivery,
                    indexed, maxAddress, pushBudget, clientBudget, failBudget, addresses, client, transport,
                    reconnectCounter, propagationSubscriptions, passes, resolved,
                    successCallbacks, failedCallbacks, generated, snapshots,
                    caught, resolvedAt, teardowns, failedAttempts >>

\* the awaited derivation or snapshot fetch of a suspended advance rejects:
\* the catch of the push handler (lines 177-179) ends it
AdvanceFails(a) ==
    /\ BagIn(a, advances)
    /\ caught < failBudget
    /\ advances' = advances (-) SetToBag({a})
    /\ caught' = caught + 1
    /\ UNCHANGED << msgBudget, msgKind, timerBudget, rejection, handshaken, balance, balanceChanges,
                    transactionMap, receivedTransactions, delivered, lastDelivery,
                    indexed, maxAddress, pushBudget, clientBudget, failBudget, addressMap, addresses, client, transport,
                    reconnectCounter, propagationSubscriptions,
                    balanceSubscriptions, transactionsSubscriptions, passes,
                    resolved, successCallbacks, failedCallbacks, generated,
                    snapshots, resolvedAt, teardowns, failedAttempts >>

\* ---- balance and transaction sync ----
\* a push arrives on the balance subscription e of /topic/<hex>: lines 118-134
BalancePush(e, data) ==
    /\ e \in balanceSubscriptions
    /\ Open(e)
    /\ msgKind = "balance"
    /\ delivered < msgBudget
    /\ LET r == BalanceHandler(balance, data)
       IN /\ balance' = r.map
          /\ balanceChanges' = balanceChanges + r.emitted
          /\ lastDelivery' = [kind |-> "balance", topic |-> e.hex, data |-> data,
                              error |-> r.error]
    /\ delivered' = delivered + 1
    /\ UNCHANGED << msgBudget, msgKind, timerBudget, rejection, handshaken,
                    transactionMap, receivedTransactions,
                    indexed, maxAddress, pushBudget, clientBudget, failBudget,
                    addressMap, addresses, client, transport, reconnectCounter,
                    propagationSubscriptions, balanceSubscriptions,
                    transactionsSubscriptions, passes, advances, resolved,
                    successCallbacks, failedCallbacks, generated, snapshots,
                    caught, resolvedAt, teardowns, failedAttempts >>

\* the bodies a balance push may carry
BalanceBodies ==
    [message : {"Balance Updated!", "other"}, addressHash : 0..MaxHash,
     balance : WireAmounts, preBalance : WireAmounts]

OnBalancePush ==
    \E e \in balanceSubscriptions : \E data \in BalanceBodies : BalancePush(e, data)

\* a push arrives on the transaction subscription e of
\* /topic/addressTransactions/<hex>: lines 140-150
TransactionPush(e, data) ==
    /\ e \in transactionsSubscriptions
    /\ Open(e)
    /\ msgKind = "transaction"
    /\ delivered < msgBudget
    /\ LET r == SetTransaction(transactionMap, TransactionData(data.transactionData))
       IN /\ transactionMap' = r.map
          /\ receivedTransactions' = receivedTransactions + r.emitted
    /\ lastDelivery' = [kind |-> "transaction", topic |-> e.hex, data |-> data,
                        error |-> "none"]
    /\ delivered' = delivered + 1
    /\ UNCHANGED << msgBudget, msgKind, timerBudget, rejection, handshaken, balance,
                    balanceChanges,
                    indexed, maxAddress, pushBudget, clientBudget, failBudget,
                    addressMap, addresses, client, transport, reconnectCounter,
                    propagationSubscriptions, balanceSubscriptions,
                    transactionsSubscriptions, passes, advances, resolved,
                    successCallbacks, failedCallbacks, generated, snapshots,
                    caught, resolvedAt, teardowns, failedAttempts >>

\* the bodies a transaction push may carry
TransactionBodies ==
    [transactionData : [hash : 0..MaxHash,
                        transactionConsensusUpdateTime : 0..MaxTime,
                        body : 0..MaxAmount]]

OnTransactionPush ==
    \E e \in transactionsSubscriptions :
        \E data \in TransactionBodies : TransactionPush(e, data)

\* the awaits that settle, whichever suspended call they belong to
OnPassDerived == \E p \in passes : PassDerived(p)
OnPassDeriveFails == \E p \in passes : PassDeriveFails(p)
OnAdvanceDerived == \E a \in BagToSet(advances) : AdvanceDerived(a)
OnAdvanceSnapshot == \E a \in BagToSet(advances) : AdvanceSnapshot(a)
OnAdvanceFails == \E a \in BagToSet(advances) : AdvanceFails(a)
\* the events of the transports
OnHandshakeSuccess == \E t \in 1..Len(transport) : HandshakeSuccess(t)
OnConnectError == \E t \in 1..Len(transport) : ConnectError(t)
OnReconnectError == \E t \in 1..Len(transport) : ReconnectError(t)
OnPropagationPush ==
    \E k \in 1..Len(propagationSubscriptions) :
        PropagationPush(k, propagationSubscriptions[k].index)
\* a propagation push that carries the hash of another address
OnPropagationForeign ==
    \E k \in 1..Len(propagationSubscriptions) :
        \E addressHash \in (0..MaxHash) \ {propagationSubscriptions[k].index} :
            PropagationPush(k, addressHash)

Next ==
    \/ Connect
    \/ OnHandshakeSuccess
    \/ OnPassDerived
    \/ OnPassDeriveFails
    \/ OnConnectError
    \/ OnReconnectError
    \/ OnPropagationPush
    \/ OnAdvanceDerived
    \/ OnAdvanceSnapshot
    \/ OnAdvanceFails
    \/ ConnectTimeout

Spec == Init /\ [][Next]_vars

\* One session of an indexed wallet without a maximum address count, in which
\* the transport stays up and every await resolves, with MaxRacePush pushes:
\* the runs in which confirmations interleave in the full window.
InitSession ==
    \E known \in SUBSET (0..(MaxKnown - 1)) :
        InitWith(TRUE, 0, known, [push |-> MaxRacePush, clients |-> 1, fail |-> 0,
                                     msgs |-> 0, kind |-> "none", timer |-> FALSE])

NextSession ==
    \/ Connect
    \/ OnHandshakeSuccess
    \/ OnPassDerived
    \/ OnPropagationPush
    \/ OnAdvanceDerived
    \/ OnAdvanceSnapshot

SpecSession == InitSession /\ [][NextSession]_vars

\* One session in which the transport stays up and every await resolves, and
\* in which MaxMsg pushes of one kind arrive: balance pushes, transaction
\* pushes, or propagation pushes that carry the hash of another address.
InitSync ==
    \E ix \in BOOLEAN, maxA \in MaxAddressChoices, known \in SUBSET (0..(MaxKnown - 1)) :
        \E kind \in {"balance", "transaction", "propagation"} :
            /\ kind = "propagation" => (ix /\ maxA > 0)
            /\ kind # "propagation" => (known # {} /\ maxA = IF ix THEN 1 ELSE 0)
            /\ InitWith(ix, maxA, known, [push |-> 0, clients |-> 1, fail |-> 0,
                                           msgs |-> MaxMsg, kind |-> kind,
                                           timer |-> FALSE])

NextSync ==
    \/ Connect
    \/ OnHandshakeSuccess
    \/ OnPassDerived
    \/ OnBalancePush
    \/ OnTransactionPush
    \/ OnPropagationForeign

SpecSync == InitSync /\ [][NextSync]_vars

\* Sessions of an indexed wallet whose window is cut short by the maximum
\* address count, in which every await resolves, with MaxResumePush pushes
\* over MaxSessions transports: the runs in which discovery goes on after a
\* reconnect.
InitResume ==
    \E maxA \in MaxAddressChoices \ {0}, known \in SUBSET (0..(MaxKnown - 1)) :
        InitWith(TRUE, maxA, known, [push |-> MaxResumePush, clients |-> MaxSessions,
                                     fail |-> 0, msgs |-> 0, kind |-> "none",
                                     timer |-> FALSE])

NextResume ==
    \/ Connect
    \/ OnHandshakeSuccess
    \/ OnPassDerived
    \/ OnConnectError
    \/ OnReconnectError
    \/ OnPropagationPush
    \/ OnAdvanceDerived
    \/ OnAdvanceSnapshot

SpecResume == InitResume /\ [][NextResume]_vars

\* ---- state functions used by the properties ----

\* the indices of the propagation map's keys, in insertion order
PropIndexSeq ==
    [x \in 1..Len(propagationSubscriptions) |-> propagationSubscriptions[x].index]

\* the indices that have an open propagation subscription
OpenPropIndices ==
    { propagationSubscriptions[x].index :
        x \in { y \in 1..Len(propagationSubscriptions) :
                   Open(propagationSubscriptions[y]) } }

\* every entry of the propagation map is an open subscription
AllPropOpen ==
    \A x \in 1..Len(propagationSubscriptions) : Open(propagationSubscriptions[x])

\* the hexes with an open subscription in a hex-keyed map
OpenKeys(m) == { e.hex : e \in { f \in m : Open(f) } }

\* an indexed wallet without a maximum address count
FullWindow == indexed /\ maxAddress = 0

\* k: the number of addresses the wallet knew at connect()
KnownCount == Cardinality(addresses)

\* connect() has resolved in the first session, which is still up, and no
\* propagation push was handled before it resolved
QuietFirstSession ==
    /\ resolved
    /\ resolvedAt = 0
    /\ Len(transport) = 1
    /\ transport[1].st = "connected"

\* no push handler is suspended and none has failed
HandlersDone == advances = EmptyBag /\ passes = {} /\ caught = 0

\* the highest index confirmed used so far (-1 when there is none)
LastUsedIndex ==
    LET used == addresses \cup BagToSet(generated)
    IN IF used = {} THEN -1 ELSE CHOOSE m \in used : \A u \in used : u <= m

\* the seeded window k..k+9, in order
SeededWindow == [x \in 1..Lookahead |-> KnownCount + x - 1]

\* the seeded window after the single confirmation of index j: j is removed
\* and one index past the last remaining entry is appended
WindowAfter(j) ==
    [x \in 1..Lookahead |->
        IF x = Lookahead
        THEN (IF j = KnownCount + Lookahead - 1
              THEN KnownCount + Lookahead - 1
              ELSE KnownCount + Lookahead)
        ELSE (IF KnownCount + x - 1 < j THEN KnownCount + x - 1 ELSE KnownCount + x)]

\* ---- C1 ----
\* C1 as stated: once the first synchronisation pass is over, the indices
\* with an open propagation subscription are exactly lastUsedIndex+1 ..
\* lastUsedIndex+10 (read in the states where no handler is suspended).
C1_NoGap ==
    (FullWindow /\ QuietFirstSession /\ HandlersDone)
        => OpenPropIndices = (LastUsedIndex + 1)..(LastUsedIndex + Lookahead)

\* C1 amended: the frontier may contain gaps. After a quiet first pass over
\* the window k..k+9, the single confirmation of index j removes only j and
\* appends one index past the last remaining entry; the unconfirmed lower
\* indices stay subscribed (confirming 3 out of 0-9 gives 0,1,2,4,...,10).
C1_GapAllowed ==
    (FullWindow /\ QuietFirstSession /\ HandlersDone
       /\ BagCardinality(generated) = 1)
        => \A j \in BagToSet(generated) :
              /\ PropIndexSeq = WindowAfter(j)
              /\ AllPropOpen

\* C1 witness: index 3 of the window 0-9 was confirmed
C1_Witness ==
    /\ FullWindow /\ QuietFirstSession /\ HandlersDone
    /\ generated = SetToBag({3})
    /\ PropIndexSeq = << 0, 1, 2, 4, 5, 6, 7, 8, 9, 10 >>

\* ---- C2 ----
\* C2: wallet [a0], no maximum. After connect: balance and transaction
\* subscriptions for a0 and propagation subscriptions for exactly 1..10.
\* After a push then confirmed index 4: propagation set 1,2,3,5,...,11, one
\* snapshot requested for index 4, and (the handler done) balance and
\* transaction subscriptions open for index 4.
C2_Scenario ==
    (FullWindow /\ addresses = {0} /\ QuietFirstSession /\ caught = 0) =>
        /\ generated = EmptyBag =>
              /\ PropIndexSeq = << 1, 2, 3, 4, 5, 6, 7, 8, 9, 10 >>
              /\ AllPropOpen
              /\ OpenKeys(balanceSubscriptions) = {0}
              /\ OpenKeys(transactionsSubscriptions) = {0}
              /\ snapshots = EmptyBag
        /\ (generated = SetToBag({4})
              /\ \A a \in BagToSet(advances) : a.pc = "snapshot") =>
              /\ PropIndexSeq = << 1, 2, 3, 5, 6, 7, 8, 9, 10, 11 >>
              /\ AllPropOpen
              /\ snapshots = SetToBag({4})
        /\ (generated = SetToBag({4}) /\ advances = EmptyBag) =>
              /\ OpenKeys(balanceSubscriptions) = {0, 4}
              /\ OpenKeys(transactionsSubscriptions) = {0, 4}
              /\ Cardinality(balanceSubscriptions) = 2
              /\ Cardinality(transactionsSubscriptions) = 2

\* C2 witness: the push for index 4 was handled to its end
C2_Witness ==
    /\ FullWindow /\ addresses = {0} /\ QuietFirstSession /\ HandlersDone
    /\ generated = SetToBag({4})
    /\ 4 \in OpenKeys(balanceSubscriptions)

\* ---- C3 ----
\* C3 as stated: at the step that completes the first connect's pass (no
\* maximum), the propagation map holds exactly the indices k..k+9.
C3_SeedsWindow ==
    [][(~resolved /\ resolved' /\ FullWindow /\ Len(transport) = 1)
         => (PropIndexSeq' = SeededWindow')]_vars

\* C3 amended: when the first connect's pass completes and no propagation
\* push was handled (and no transport error occurred) before that, exactly 10
\* propagation subscriptions are open, for the indices k..k+9.
C3_QuietSeedsWindow ==
    (FullWindow /\ resolved /\ Len(transport) = 1 /\ generated = EmptyBag)
        => /\ PropIndexSeq = SeededWindow
           /\ AllPropOpen
           /\ Len(propagationSubscriptions) = Lookahead

\* C3 witness: the pass of a wallet without addresses has completed quietly
C3_Witness ==
    /\ FullWindow /\ resolved /\ Len(transport) = 1 /\ generated = EmptyBag
    /\ addresses = {}
    /\ OpenPropIndices = 0..9

\* ---- C4 ----
\* C4: whatever the interleaving of the confirmations, each one removes the
\* consumed index and appends one index that was not in the frontier, so
\* (no maximum, quiet first pass, no handler suspended or failed) the
\* frontier holds 10 pairwise-distinct indices.
C4_DistinctFrontier ==
    (FullWindow /\ QuietFirstSession /\ HandlersDone) =>
        /\ Len(propagationSubscriptions) = Lookahead
        /\ \A x, y \in 1..Len(propagationSubscriptions) :
              x # y => propagationSubscriptions[x].index # propagationSubscriptions[y].index

\* ---- C5 ----
\* C5: with a maximum address count M defined, no propagation subscription
\* is ever opened for an index >= M.
C5_BelowMaximum ==
    maxAddress > 0 =>
        \A x \in 1..Len(propagationSubscriptions) :
            propagationSubscriptions[x].index < maxAddress

\* ---- C6 ----
\* C6: after 7 consecutive failed reconnect attempts the reconnect-failure
\* callback has fired, once, and no further attempt is in flight.
C6_SevenFailures ==
    failedAttempts = RetryLimit + 1 =>
        /\ failedCallbacks = 1
        /\ transport[client].st = "failed"

\* ---- C7 ----
\* C7: the loss of an established session, whichever handshake established
\* it, starts a reconnect attempt and does not fire the reconnect-failure
\* callback.
C7_LossReconnects ==
    [][\A t \in 1..Len(transport) :
          (transport[t].st = "connected" /\ transport'[t].st = "failed")
            => /\ failedCallbacks' = failedCallbacks
               /\ Len(transport') = Len(transport) + 1
               /\ transport'[client'].st = "connecting"]_vars

\* ---- C8 ----
\* C8: once a reconnect handshake has succeeded, every address of the wallet
\* has a balance and a transaction subscription on the new transport, and
\* (its pass done) the lookahead window has propagation subscriptions on it.
C8_ReplayOnReconnect ==
    (client > 0 /\ transport[client].via = "reconnect"
       /\ transport[client].st = "connected") =>
        /\ \A a \in addresses :
              /\ \E e \in balanceSubscriptions : e.hex = a /\ e.tr = client /\ Open(e)
              /\ \E e \in transactionsSubscriptions : e.hex = a /\ e.tr = client /\ Open(e)
        /\ (indexed /\ caught = 0 /\ passes = {} /\ generated = EmptyBag
              /\ SeedCondition(KnownCount, KnownCount, maxAddress)) =>
              \E x \in 1..Len(propagationSubscriptions) :
                  /\ propagationSubscriptions[x].tr = client
                  /\ Open(propagationSubscriptions[x])

\* ---- C9 ----
\* C9: the step that runs addressesUnsubscribe leaves the three subscription
\* maps empty.
C9_TeardownEmpties ==
    [][teardowns' = teardowns + 1
         => /\ propagationSubscriptions' = << >>
            /\ balanceSubscriptions' = {}
            /\ transactionsSubscriptions' = {}]_vars

\* ---- C10 ----
\* C10: at any time there is at most one open subscription per kind and
\* address hex.
C10_OneOpenPerAddress ==
    /\ \A x, y \in 1..Len(propagationSubscriptions) :
          (x # y /\ Open(propagationSubscriptions[x]) /\ Open(propagationSubscriptions[y]))
            => propagationSubscriptions[x].index # propagationSubscriptions[y].index
    /\ \A e, f \in balanceSubscriptions : (e # f /\ Open(e) /\ Open(f)) => e.hex # f.hex
    /\ \A e, f \in transactionsSubscriptions : (e # f /\ Open(e) /\ Open(f)) => e.hex # f.hex

\* ---- C11 ----
\* C11: the promise returned by connect() is resolved once a handshake, of
\* the first attempt or of a reconnect attempt, has completed and its
\* synchronisation pass has finished, and it is rejected by the deadline only
\* if no handshake had completed by then.
C11_ConnectPromise ==
    /\ (successCallbacks > 0 /\ rejection = "none") => resolved
    /\ rejection # "afterHandshake"

\* the amount a pushed field stands for, null read as zero
PushedAmount(x) == IF x.kind = "null" THEN 0 ELSE x.v

\* the step delivers a balance push for an address the wallet knows
KnownBalancePushStep ==
    /\ delivered' = delivered + 1
    /\ lastDelivery'.kind = "balance"
    /\ lastDelivery'.data.message = "Balance Updated!"
    /\ lastDelivery'.data.addressHash \in Keys(balance)

\* ---- C12 ----
\* C12: every balance push for an address known to the wallet leaves the
\* pushed (balance, preBalance), null read as zero, stored for that address,
\* and emits one balance-changed notification, whatever was stored before.
C12_BalancePushApplied ==
    [][KnownBalancePushStep =>
          /\ \E e \in balance' :
                /\ e.hex = lastDelivery'.data.addressHash
                /\ e.balance.v = PushedAmount(lastDelivery'.data.balance)
                /\ e.preBalance.v = PushedAmount(lastDelivery'.data.preBalance)
          /\ balanceChanges' = balanceChanges + 1]_vars

\* the step delivers a transaction push
TransactionPushStep ==
    /\ delivered' = delivered + 1
    /\ lastDelivery'.kind = "transaction"

\* the transaction the last delivered transaction push carried
PushedTransaction == TransactionData(lastDelivery.data.transactionData)

\* the records stored for the hash of a transaction
StoredFor(map, tx) == { r \in map : r.hash = tx.hash }

\* ---- C13 ----
\* C13: a transaction push whose hash and consensus-update timestamp equal
\* those of the record stored for the hash changes neither the transaction map
\* nor the number of received-transaction notifications; any other push
\* leaves its own record as the only one stored for the hash, the records of
\* the other hashes untouched, and emits one notification.
C13_TransactionIdempotent ==
    [][TransactionPushStep =>
          IF \E r \in StoredFor(transactionMap, PushedTransaction') :
                r.transactionConsensusUpdateTime =
                    PushedTransaction'.transactionConsensusUpdateTime
          THEN /\ transactionMap' = transactionMap
               /\ receivedTransactions' = receivedTransactions
          ELSE /\ StoredFor(transactionMap', PushedTransaction') =
                      { ReducedTransaction(PushedTransaction') }
               /\ transactionMap' \ StoredFor(transactionMap', PushedTransaction') =
                      transactionMap \ StoredFor(transactionMap, PushedTransaction')
               /\ receivedTransactions' = receivedTransactions + 1]_vars

\* C13 witness: a second push with the hash and the timestamp of the stored
\* record, but another content, was delivered and the first record is still
\* the one stored
C13_Witness ==
    /\ delivered = 2
    /\ lastDelivery.kind = "transaction"
    /\ receivedTransactions = 1
    /\ \E r \in transactionMap :
          /\ r.hash = PushedTransaction.hash
          /\ r.transactionConsensusUpdateTime = PushedTransaction.transactionConsensusUpdateTime
          /\ r.body # PushedTransaction.body

\* the step delivers a propagation push whose addressHash is not the hash
\* of the address the subscription was opened for
ForeignPropagationStep ==
    /\ delivered' = delivered + 1
    /\ lastDelivery'.kind = "propagation"
    /\ lastDelivery'.data.addressHash # lastDelivery'.topic

\* ---- C14 ----
\* C14: a propagation push whose payload hash differs from the hash of the
\* subscribed address changes neither the three subscription maps nor the
\* wallet, starts no frontier advance, emits no address-generated
\* notification, and the subscription it arrived on is still open.
C14_MismatchDropped ==
    [][ForeignPropagationStep =>
          /\ UNCHANGED << propagationSubscriptions, balanceSubscriptions,
                          transactionsSubscriptions, addressMap, balance,
                          transactionMap, generated, advances, snapshots,
                          balanceChanges, receivedTransactions, transport, client >>
          /\ lastDelivery'.topic \in OpenPropIndices']_vars

\* C14 witness: a push with a foreign hash was delivered on an open
\* propagation subscription and its handler logged the mismatch
C14_Witness ==
    /\ lastDelivery.kind = "propagation"
    /\ lastDelivery.error = "PropagationMismatch"
    /\ lastDelivery.data.addressHash # lastDelivery.topic
    /\ lastDelivery.topic \in OpenPropIndices
    /\ generated = EmptyBag

\* the indices of the lookahead window seeded by onConnected
SeedIndices ==
    { i \in KnownCount..(KnownCount + Lookahead - 1) :
        indexed /\ SeedCondition(i, KnownCount, maxAddress) }

\* the step fires the success callback for the pass of the current client,
\* whose transport is up, and no propagation push has been handled
CurrentPassCompletesStep ==
    /\ successCallbacks' # successCallbacks
    /\ \A p \in passes : p.tr = client
    /\ transport'[client'].st = "connected"
    /\ generated' = EmptyBag

\* ---- C15 ----
\* C15: the success callback fires once at a time, and when it fires for the
\* pass of a connect or reconnect handshake, every address the pass was given
\* has an open balance and an open transaction subscription and every index
\* of the lookahead window has an open propagation subscription.
C15_CallbackAfterSeeding ==
    [][CurrentPassCompletesStep =>
          /\ successCallbacks' = successCallbacks + 1
          /\ addresses \subseteq (OpenKeys(balanceSubscriptions))'
          /\ addresses \subseteq (OpenKeys(transactionsSubscriptions))'
          /\ SeedIndices \subseteq OpenPropIndices']_vars

\* ---- C16 ----
\* C16: in a first session of an indexed wallet in which no await rejects,
\* once no handler is suspended every confirmed address has had its balance
\* snapshot fetched and has open balance and transaction subscriptions, also
\* when its confirmation left the propagation map empty.
C16_EmptyMapStillTracks ==
    (indexed /\ failBudget = 0 /\ Len(transport) = 1 /\ transport[1].st = "connected"
       /\ passes = {} /\ advances = EmptyBag) =>
        \A j \in BagToSet(generated) :
            /\ j \in BagToSet(snapshots)
            /\ j \in OpenKeys(balanceSubscriptions)
            /\ j \in OpenKeys(transactionsSubscriptions)

\* ---- C17 ----
\* C17: whatever pushes arrive, an address hex is confirmed at most once: no
\* hex has more than one address-generated notification or more than one
\* snapshot fetch.
C17_ConfirmedOnce ==
    /\ \A h \in BagToSet(generated) : CopiesIn(h, generated) = 1
    /\ \A h \in BagToSet(snapshots) : CopiesIn(h, snapshots) = 1

\* the step in which a synchronisation pass opens a propagation subscription
PassSubscribesStep ==
    /\ passes' # passes
    /\ Len(propagationSubscriptions') = Len(propagationSubscriptions) + 1

\* ---- C18 ----
\* C18: a synchronisation pass, of a connect or of a reconnect, never opens a
\* propagation subscription for an index whose address the wallet already
\* knows at that moment.
C18_SeedsPastKnown ==
    [][PassSubscribesStep =>
          propagationSubscriptions'[Len(propagationSubscriptions')].index
              \notin addressMap]_vars

\* the highest index among the keys of the propagation map
HighestFrontierIndex ==
    CHOOSE m \in OpenPropIndices \cup { PropIndexSeq[x] : x \in 1..Len(PropIndexSeq) } :
        \A x \in 1..Len(PropIndexSeq) : PropIndexSeq[x] <= m

\* ---- C19 ----
\* C19: when a frontier advance is computed, the index it will subscribe is
\* one greater than the highest index present in the propagation map at that
\* time.
C19_NextPastHighest ==
    [][\A a \in BagToSet(advances') :
          (a.pc = "derive" /\ CopiesIn(a, advances') > CopiesIn(a, advances))
            => a.next = HighestFrontierIndex' + 1]_vars

\* the step delivers a balance push whose addressHash is not a key of the
\* wallet's address map
UnknownBalancePushStep ==
    /\ delivered' = delivered + 1
    /\ lastDelivery'.kind = "balance"
    /\ lastDelivery'.data.message = "Balance Updated!"
    /\ lastDelivery'.data.addressHash \notin Keys(balance)

\* ---- C20 ----
\* C20: a balance push whose addressHash is not a key of the wallet's address
\* map ends in the handler's own catch with the address-not-found error, and
\* changes neither the wallet's addresses and balances, nor the number of
\* balance-changed notifications, nor the three subscription maps, nor the
\* connection.
C20_UnknownBalanceDropped ==
    [][UnknownBalancePushStep =>
          /\ lastDelivery'.error = "AddressNotFound"
          /\ UNCHANGED << balance, addressMap, balanceChanges, transactionMap,
                          receivedTransactions, propagationSubscriptions,
                          balanceSubscriptions, transactionsSubscriptions,
                          client, transport, reconnectCounter, caught,
                          failedCallbacks, successCallbacks >>]_vars

\* C20 witness: a balance push for a hash the wallet does not know was
\* delivered on an open balance subscription
C20_Witness ==
    /\ lastDelivery.kind = "balance"
    /\ lastDelivery.data.message = "Balance Updated!"
    /\ lastDelivery.data.addressHash \notin Keys(balance)
    /\ lastDelivery.error = "AddressNotFound"
    /\ lastDelivery.topic \in OpenKeys(balanceSubscriptions)

\* unsubscribe() has been invoked on every handle registered in the three maps
AllUnsubscribed ==
    /\ \A x \in 1..Len(propagationSubscriptions) : propagationSubscriptions[x].unsub
    /\ \A e \in balanceSubscriptions : e.unsub
    /\ \A e \in transactionsSubscriptions : e.unsub

\* ---- C21 ----
\* C21: when the transport of an established session fails, unsubscribe has
\* been invoked on every handle registered in the three maps by the time the
\* error callback is over, and a reconnect attempt on a fresh transport has
\* started.
C21_TeardownBeforeReconnect ==
    [][\A t \in 1..Len(transport) :
          (transport[t].st = "connected" /\ transport'[t].st = "failed")
            => /\ AllUnsubscribed'
               /\ Len(transport') = Len(transport) + 1
               /\ transport'[Len(transport')].st = "connecting"
               /\ client' = Len(transport')]_vars

\* the confirmed addresses whose frontier advance is still suspended
PendingAdvances == { a.address : a \in BagToSet(advances) }

\* ---- C22 ----
\* C22: every address whose propagation subscription was removed by a
\* confirming push ends up with an open balance subscription and an open
\* transaction subscription, whether or not the awaited derivation or snapshot
\* fetch succeeds: in a first session that stays connected, the step that ends
\* the frontier advance of a confirmed address leaves that address tracked.
C22_ConfirmedTracked ==
    [][(Len(transport) = 1 /\ transport[1].st = "connected" /\ transport' = transport) =>
          \A j \in BagToSet(generated) :
              (j \in PendingAdvances /\ j \notin PendingAdvances') =>
                  /\ j \in (OpenKeys(balanceSubscriptions))'
                  /\ j \in (OpenKeys(transactionsSubscriptions))']_vars

\* ---- C23 ----
\* C23: every handle registered in the three maps was obtained by a subscribe
\* call on a client whose handshake had completed and that had not failed; a
\* pass or a frontier advance resumed after a transport error does not
\* subscribe on the fresh, not yet connected client.
C23_SubscribeOnConnected ==
    /\ \A x \in 1..Len(propagationSubscriptions) : propagationSubscriptions[x].sent
    /\ \A e \in balanceSubscriptions : e.sent
    /\ \A e \in transactionsSubscriptions : e.sent

\* ---- C24 ----
\* C24: in every reachable state, every address hex with an entry in the
\* balance subscription map (and in the transaction subscription map) is a key
\* of the wallet's address map, with a balance set by the wallet mutator.
C24_SubscribedAreInWallet ==
    /\ Keys(balanceSubscriptions) \subseteq addressMap
    /\ Keys(transactionsSubscriptions) \subseteq addressMap
    /\ Keys(balanceSubscriptions) \subseteq Keys(balance)

\* a discovered address (not in the list captured by connect()) has its
\* balance subscription registered and is in the wallet's address map
C24_Witness ==
    \E e \in balanceSubscriptions :
        /\ e.hex \notin addresses
        /\ e.hex \in addressMap
        /\ e.hex \in Keys(balance)
        /\ e.hex \in BagToSet(generated)

====
